---- MODULE Spec2Model ----
(***************************************************************************)
(* A model of the autograd execution engine of                             *)
(* torch/csrc/autograd/engine.cpp: ReadyQueue, GraphTask, the worker loop  *)
(* Engine::thread_main, Engine::evaluate_function, Engine::execute with    *)
(* its reentrant paths (inline and thread pool), the completion protocol   *)
(* and the post-backward callbacks.                                        *)
(***************************************************************************)
EXTENDS Integers, Sequences, FiniteSets, Bags, TLC

(***************************************************************************)
(* Program constants                                                       *)
(***************************************************************************)
NO_DEVICE == -2
CPU_DEVICE == -1

\* The one accelerator device of the modelled machine (device index 0).
GPU0 == 0

\* "No object": a null Node pointer, a null queue pointer, a null GraphTask.
None == "none"
NoGT == 0
NoQueue == -1

\* The holder of a mutex nobody holds (holders are threads).
Unlocked == << "nobody", 0 >>

\* An undefined tensor (an empty InputBuffer slot); defined tensors are >= 0.
Undef == -1

(***************************************************************************)
(* Bounds of the model                                                     *)
(***************************************************************************)
\* Top-level execute calls a caller thread makes, one after another.
MaxCalls == 2
\* GraphTasks created in one run.
MaxGraphTasks == 4
\* Threads the reentrant pool may spawn.
MaxPoolWorkers == 2

(***************************************************************************)
(* The recorded graphs.  Node A fans out to B (on the device) and C, which *)
(* both feed D (a diamond); A's third edge is invalid.  E feeds F twice    *)
(* through the same input slot; F runs on the device.  G runs on the       *)
(* device and has one next edge, which is invalid.                         *)
(***************************************************************************)
GraphRootNode == "GraphRoot"
Nodes == {"A", "B", "C", "D", "E", "F", "G"}

Edge(f, i) == [function |-> f, input_nr |-> i]
InvalidEdge == Edge(None, 0)
is_valid(e) == e.function # None

next_edges(n) ==
  CASE n = "A" -> << Edge("B", 0), Edge("C", 0), InvalidEdge >>
    [] n = "B" -> << Edge("D", 0) >>
    [] n = "C" -> << Edge("D", 1) >>
    [] n = "D" -> << >>
    [] n = "E" -> << Edge("F", 0), Edge("F", 0) >>
    [] n = "F" -> << >>
    [] n = "G" -> << InvalidEdge >>

num_inputs(n) == IF n = "D" THEN 2 ELSE 1

\* The device of the tensors a node receives: what InputBuffer::device()
\* reports for the node's buffer.
NodeDevice(n) == IF n \in {"B", "F", "G"} THEN GPU0 ELSE CPU_DEVICE

\* Streams: stream 0 of a device is its default stream.
Stream(device, id) == << device, id >>
NoStream == Stream(NO_DEVICE, 0)
getDefaultStream(device) == Stream(device, 0)

(***************************************************************************)
(* Tensors and input buffers.  A tensor is a natural number, an empty slot *)
(* is Undef; InputBuffer::add stores into an empty slot and accumulates    *)
(* (sums) into a filled one.  srcs remembers the producers that wrote.     *)
(***************************************************************************)
InputBuffer(size) == [vals |-> [i \in 0..(size - 1) |-> Undef], srcs |-> {}]

BufferAdd(buf, pos, val, producer) ==
  [vals |-> [buf.vals EXCEPT ![pos] = IF @ = Undef THEN val ELSE @ + val],
   srcs |-> buf.srcs \cup {producer}]

RECURSIVE SumDefined(_, _)
SumDefined(vals, i) ==
  IF i \notin DOMAIN vals THEN 0
  ELSE (IF vals[i] = Undef THEN 0 ELSE vals[i]) + SumDefined(vals, i + 1)

\* What apply of node n returns for its k-th next edge (k = 1, 2, ...).
NodeOutput(n, k, vals) == SumDefined(vals, 0) + k

(***************************************************************************)
(* NodeTask                                                                *)
(***************************************************************************)
NodeTask(g, fn, inputs) ==
  [base |-> g, fn |-> fn, inputs |-> inputs, isShutdownTask |-> FALSE]
ShutdownTask ==
  [base |-> NoGT, fn |-> None, inputs |-> InputBuffer(0), isShutdownTask |-> TRUE]
NoTask == NodeTask(NoGT, None, InputBuffer(0))

(***************************************************************************)
(* Worklist helpers for the two graph analyses                             *)
(***************************************************************************)
EdgesOf(roots, n) == IF n = GraphRootNode THEN roots ELSE next_edges(n)

\* dependencies_ is a map Node -> count with a growing and shrinking domain.
MapGet(m, k, default) == IF k \in DOMAIN m THEN m[k] ELSE default
MapPut(m, k, v) == [x \in DOMAIN m \cup {k} |-> IF x = k THEN v ELSE m[x]]
MapErase(m, k) == [x \in DOMAIN m \ {k} |-> m[x]]

\* The loops below carry their state from one turn to the next; the state
\* of the next turn is bound as a value (CHOOSE over a one-element set), so
\* that it is computed once per turn.

\* A faulty loop body that counts an edge only when it reaches a node for
\* the first time.
RECURSIVE DepsOfEdgesFirstVisit(_, _, _)
DepsOfEdgesFirstVisit(edges, i, st) ==
  IF i > Len(edges) THEN st
  ELSE LET e == edges[i] IN
       IF ~is_valid(e) \/ e.function \in st.seen
       THEN DepsOfEdgesFirstVisit(edges, i + 1, st)
       ELSE CHOOSE r \in {DepsOfEdgesFirstVisit(edges, i + 1, st1) : st1 \in
              {[st EXCEPT !.deps = MapPut(st.deps, e.function, 1),
                          !.seen = @ \cup {e.function},
                          !.queue = Append(@, e.function)]}} : TRUE

\* The inner for loop of compute_dependencies over fn's edges, from edge i.
RECURSIVE DepsOfEdges(_, _, _)
DepsOfEdges(edges, i, st) ==
  IF i > Len(edges) THEN st
  ELSE LET e == edges[i] IN
       IF ~is_valid(e) THEN DepsOfEdges(edges, i + 1, st)
       ELSE LET next_ptr == e.function
                was_inserted == next_ptr \notin st.seen
            IN CHOOSE r \in {DepsOfEdges(edges, i + 1, st1) : st1 \in
                 {[st EXCEPT
                     !.deps  = MapPut(st.deps, next_ptr, MapGet(st.deps, next_ptr, 0) + 1),
                     !.seen  = st.seen \cup {next_ptr},
                     !.queue = IF was_inserted THEN Append(st.queue, next_ptr)
                               ELSE st.queue]}} : TRUE

\* The while loop of compute_dependencies: pop the back of the worklist.
\* expanded records the nodes the loop has popped (history only).
RECURSIVE DepsLoop(_, _)
DepsLoop(roots, st) ==
  IF st.queue = << >> THEN st
  ELSE LET fn == st.queue[Len(st.queue)]
           popped == [st EXCEPT !.queue = SubSeq(st.queue, 1, Len(st.queue) - 1),
                                !.expanded = @ (+) SetToBag({fn})]
       IN CHOOSE r \in {DepsLoop(roots, st1) : st1 \in
            {DepsOfEdges(EdgesOf(roots, fn), 1, popped)}} : TRUE

compute_dependencies(roots) ==
  DepsLoop(roots, [deps |-> << >>, seen |-> {}, queue |-> << GraphRootNode >>,
                   expanded |-> EmptyBag]).deps

(***************************************************************************)
(* GraphTask::init_to_execute                                              *)
(***************************************************************************)
NoExecInfo == [needed_ |-> FALSE, captures_ |-> << >>]
should_execute(info) == info.needed_ \/ info.captures_ # << >>

\* The loop over the requested outputs: one Capture per output edge.
RECURSIVE AddCaptures(_, _, _)
AddCaptures(outputs, i, info) ==
  IF i > Len(outputs) THEN info
  ELSE LET output == outputs[i].function
           old == MapGet(info, output, NoExecInfo)
           cap == [input_idx_ |-> outputs[i].input_nr, output_idx_ |-> i - 1]
       IN CHOOSE r \in {AddCaptures(outputs, i + 1, info1) : info1 \in
            {MapPut(info, output, [old EXCEPT !.captures_ = Append(@, cap)])}} : TRUE

\* Frame::get_next_fn: the next valid edge of the frame at or after next_next_fn_.
RECURSIVE GetNextFn(_, _)
GetNextFn(edges, i) ==
  IF i > Len(edges) THEN [fn |-> None, next |-> i]
  ELSE IF is_valid(edges[i]) THEN [fn |-> edges[i].function, next |-> i + 1]
  ELSE GetNextFn(edges, i + 1)

\* A faulty test that looks only at needed_ of the successors.
AnyNextNeeded(info, edges) ==
  \E i \in 1..Len(edges) :
     /\ edges[i].function \in DOMAIN info
     /\ info[edges[i].function].needed_

AnyNextShouldExecute(info, edges) ==
  \E i \in 1..Len(edges) :
     /\ edges[i].function \in DOMAIN info
     /\ should_execute(info[edges[i].function])

\* The while (!stack.empty()) loop of init_to_execute.
RECURSIVE NeededLoop(_)
NeededLoop(st) ==
  IF st.stack = << >> THEN st
  ELSE LET top == Len(st.stack)
           frame == st.stack[top]
           nx == GetNextFn(next_edges(frame.fn_), frame.next_next_fn_)
           advanced == [st.stack EXCEPT ![top].next_next_fn_ = nx.next]
           needed == AnyNextShouldExecute(st.info, next_edges(frame.fn_))
           old == MapGet(st.info, frame.fn_, NoExecInfo)
       IN CHOOSE r \in {NeededLoop(st1) : st1 \in
            {IF nx.fn # None
             THEN IF nx.fn \notin st.seen
                  THEN [st EXCEPT !.stack = Append(advanced,
                                     [fn_ |-> nx.fn, next_next_fn_ |-> 1]),
                                  !.seen = @ \cup {nx.fn}]
                  ELSE [st EXCEPT !.stack = advanced]
             ELSE [st EXCEPT
                     !.info = MapPut(@, frame.fn_, [old EXCEPT !.needed_ = needed]),
                     !.stack = SubSeq(advanced, 1, top - 1)]}} : TRUE

\* The for loop over graph_root.next_edges().
RECURSIVE NeededRoots(_, _, _)
NeededRoots(roots, i, st) ==
  IF i > Len(roots) THEN st.info
  ELSE IF roots[i].function \in st.seen THEN NeededRoots(roots, i + 1, st)
  ELSE CHOOSE r \in {NeededRoots(roots, i + 1, st1) : st1 \in
         {NeededLoop([st EXCEPT !.stack =
            << [fn_ |-> roots[i].function, next_next_fn_ |-> 1] >>])}} : TRUE

init_to_execute(roots, outputs) ==
  LET root_info == MapPut(<< >>, GraphRootNode, [NoExecInfo EXCEPT !.needed_ = TRUE])
      with_caps == AddCaptures(outputs, 1, root_info)
  IN NeededRoots(roots, 1, [info |-> with_caps, seen |-> {}, stack |-> << >>])

ExecInfoFor(roots, outputs) ==
  IF outputs # << >> THEN init_to_execute(roots, outputs) ELSE << >>

(***************************************************************************)
(* Threads.  A caller thread calls Engine::execute from outside the        *)
(* engine; the device thread runs thread_init for device 0; pool threads   *)
(* run reentrant_thread_init once add_thread_pool_task has spawned them.   *)
(***************************************************************************)
CallerThreads == {<< "caller", 1 >>, << "caller", 2 >>}
DeviceThreads == {<< "device", GPU0 >>}
PoolThreads == {<< "pool", i >> : i \in 1..MaxPoolWorkers}
Threads == CallerThreads \cup DeviceThreads \cup PoolThreads

\* Ready queues: the device queue, and the CPU queue allocated by the
\* top-level execute that created GraphTask g (named g).
DeviceQueue(d) == d
QueueIds == 0..MaxGraphTasks

(***************************************************************************)
(* The runs that are checked: which threads call execute, on which roots   *)
(* and requested outputs, which nodes may raise in apply, which nodes call *)
(* execute from inside apply (on which roots, call after call), which      *)
(* nodes register a                                                        *)
(* post-backward callback, and the engine's max_recursion_depth_.          *)
(***************************************************************************)
Run(name, callers, calls, outputs, may_raise, reenter, depth) ==
  [name |-> name, callers |-> callers, calls |-> calls, roots |-> << Edge("A", 0) >>,
   outputs |-> outputs, may_raise |-> may_raise, reenter |-> reenter,
   cb_nodes |-> {"A"}, max_recursion_depth_ |-> depth,
   side_streams |-> {"F", "G"}]

NestedRoots == << Edge("E", 0) >>
C1only == {<< "caller", 1 >>}

Runs ==
  { Run("diamond", C1only, MaxCalls, << >>, {"B", "C"}, << >>, 1),
    Run("capture_B", C1only, 1, << Edge("B", 0) >>, {}, << >>, 1),
    Run("capture_D", C1only, MaxCalls, << Edge("D", 1), Edge("D", 0) >>, {"C"}, << >>, 1),
    [Run("capture_F", C1only, 1, << Edge("F", 0) >>, {}, << >>, 1)
       EXCEPT !.roots = NestedRoots],
    Run("inline", C1only, 1, << >>, {"F"}, [n \in {"C"} |-> << NestedRoots >>], 1),
    Run("inline_twice", C1only, 1, << >>, {"F"},
        [n \in {"C"} |-> << NestedRoots, NestedRoots >>], 1),
    Run("pool", C1only, 1, << >>, {"F"}, [n \in {"C"} |-> << NestedRoots >>], 0),
    [Run("pool_twice", C1only, 1, << >>, {},
         [n \in {"C"} |-> << NestedRoots, NestedRoots >>], 0)
       EXCEPT !.roots = << Edge("C", 0) >>],
    Run("deep", C1only, 1, << >>, {},
        [n \in {"C", "E"} |-> IF n = "C" THEN << NestedRoots >>
                              ELSE << << Edge("F", 0) >> >>], 1),
    Run("device_inline", C1only, 1, << >>, {"C"}, [n \in {"B"} |-> << NestedRoots >>], 1),
    [Run("pool_pair", CallerThreads, 1, << >>, {},
         [n \in {"C"} |-> << << Edge("D", 0) >> >>], 0)
       EXCEPT !.roots = << Edge("C", 0) >>],
    [Run("siblings", C1only, 1, << >>, {},
         [n \in {"C", "E"} |-> IF n = "C" THEN << << Edge("F", 0) >> >>
                               ELSE << << Edge("D", 0) >> >>], 1)
       EXCEPT !.roots = << Edge("C", 0), Edge("E", 0) >>],
    Run("device_nested", C1only, 1, << >>, {},
        [n \in {"C", "F"} |-> IF n = "C" THEN << NestedRoots >>
                              ELSE << << Edge("D", 0) >> >>], 1),
    [Run("leak", C1only, 1, << >>, {},
         [n \in {"C", "E"} |-> IF n = "C" THEN << NestedRoots >>
                               ELSE << << Edge("F", 0) >>, << Edge("F", 0) >> >>], 2)
       EXCEPT !.roots = << Edge("C", 0) >>],
    [Run("leaf_default", C1only, 1, << >>, {}, << >>, 1)
       EXCEPT !.roots = NestedRoots, !.side_streams = {}],
    [Run("invalid_leaf", C1only, 1, << >>, {}, << >>, 1)
       EXCEPT !.roots = << Edge("G", 0) >>],
    Run("concurrent", CallerThreads, 1, << >>, {}, << >>, 1) }

\* The arguments of execute for the checks of what execute builds before it
\* runs anything: one or two root edges and up to two requested outputs,
\* over every input slot of every node.
MaxRoots == 2
MaxOutputs == 2
BuildNodes == {"A", "B", "C", "D", "E", "F"}
SlotEdges == {Edge(n, k) : n \in BuildNodes, k \in {0, 1}} \cap
             UNION {{Edge(n, k) : k \in 0..(num_inputs(n) - 1)} : n \in BuildNodes}
EdgeSeqs(lo, hi) == UNION {[1..len -> SlotEdges] : len \in lo..hi}
BuildRuns ==
  {[Run("build", C1only, 1, outputs, {}, << >>, 1) EXCEPT !.roots = roots] :
     roots \in EdgeSeqs(1, MaxRoots), outputs \in EdgeSeqs(0, MaxOutputs)}

VARIABLES
  run,              \* the run being checked (never changes)
  gts,              \* the GraphTasks created so far, by id 1..Len(gts)
  queues,           \* ReadyQueue::heap_ of every ready queue, a bag of NodeTasks
  stack,            \* per thread: its call stack of engine frames
  tls,              \* per thread: its thread_local variables
  pool,             \* Engine::thread_pool_shared_
  final_callbacks_, \* Engine::final_callbacks_
  fault,            \* the internal assertion (or crash) that ended the process
  hist              \* history of the run (what was pushed, evaluated, returned)

vars == << run, gts, queues, stack, tls, pool, final_callbacks_, fault, hist >>

(***************************************************************************)
(* Frames.  A frame is one activation of execute, of thread_main or of     *)
(* reentrant_thread_init, with its local variables and its position.       *)
(***************************************************************************)
Frame(kind, pc, g, reentrant) ==
  [kind |-> kind, pc |-> pc, graph_task |-> g, reentrant_thread |-> reentrant,
   task |-> NoTask, local_graph_task |-> NoGT, gt_completed |-> FALSE,
   outputs |-> << >>, exc |-> None, i |-> 0,
   after_error |-> FALSE,   \* history: has_error_ was latched when task was popped
   depths_at_entry |-> << 0, 0 >>,  \* history: current_depth, total_depth at entry
   prev_checkpoint_valid_state |-> TRUE]  \* local of call_function (line 481)

\* Where an iteration of the worker loop ends: at the loop condition, which
\* only a reentrant worker evaluates on shared state (line 292).
LoopPc(reentrant_thread) == IF reentrant_thread THEN "loop" ELSE "pop"

HasTop(t) == stack[t] # << >>
Top(t) == stack[t][Len(stack[t])]
Below(t) == SubSeq(stack[t], 1, Len(stack[t]) - 1)
\* Thread t is at position pc of a frame of this kind; nothing runs once an
\* internal assertion has ended the process.
At(t, kind, pc) ==
  fault = None /\ HasTop(t) /\ Top(t).kind = kind /\ Top(t).pc = pc
WithTop(t, f) == [stack EXCEPT ![t][Len(stack[t])] = f]

\* A GraphTask is alive while some shared_ptr to it exists: the one execute
\* holds, the local_graph_task of a worker processing one of its tasks, the
\* one a pool worker holds while it drives the GraphTask.
Alive(g) ==
  \E t \in Threads : \E k \in 1..Len(stack[t]) :
     stack[t][k].graph_task = g \/ stack[t][k].local_graph_task = g
Expired(g) == ~Alive(g)

(***************************************************************************)
(* GraphTask                                                               *)
(***************************************************************************)
PendingFuture == [completed |-> FALSE, hasError |-> FALSE, value |-> << >>, error |-> None]

\* The constructor's parameter exit_on_error, which Engine::execute leaves
\* to its default.
exit_on_error == FALSE

NewGraphTask(roots, outputs, reentrant_depth, cpu_ready_queue) ==
  [outstanding_tasks_ |-> 0,
   dependencies_ |-> compute_dependencies(roots),
   not_ready_ |-> << >>,
   exec_info_ |-> ExecInfoFor(roots, outputs),
   captured_vars_ |-> [k \in 0..(Len(outputs) - 1) |-> Undef],
   has_error_ |-> FALSE,
   exit_on_error_ |-> exit_on_error,
   future_result_ |-> PendingFuture,
   owner_ |-> NO_DEVICE,
   reentrant_depth_ |-> reentrant_depth,
   cpu_ready_queue_ |-> cpu_ready_queue,
   mutex_ |-> Unlocked,
   leaf_streams |-> {},
   roots |-> roots]

\* A faulty completion test that does not look at outstanding_tasks_.
graph_task_completed_always(gt) == TRUE

graph_task_completed(gt) ==
  gt.outstanding_tasks_ = 0 \/ (gt.exit_on_error_ /\ gt.has_error_)

\* Engine::ready_queue and Engine::ready_queue_by_index.
ready_queue(gt, device) ==
  IF device = CPU_DEVICE THEN gt.cpu_ready_queue_ ELSE DeviceQueue(device)

(***************************************************************************)
(* ReadyQueue                                                              *)
(***************************************************************************)
One(x) == SetToBag({x})

\* A faulty push that never raises the counter.
PushCountNever(g, incrementOutstandingTasks) == 0

\* ReadyQueue::push: the counter is raised under the queue's mutex.
PushCount(g, incrementOutstandingTasks) == IF incrementOutstandingTasks THEN 1 ELSE 0

\* NodeTask::getReentrantDepth
MaxInt == 2147483647
getReentrantDepth(task) ==
  IF Alive(task.base) THEN gts[task.base].reentrant_depth_ ELSE MaxInt

\* The heap order: a shutdown task first, then the larger reentrant depth.
HigherPriority(t1, t2) ==
  IF t1.isShutdownTask # t2.isShutdownTask THEN t1.isShutdownTask
  ELSE ~t1.isShutdownTask /\ getReentrantDepth(t1) > getReentrantDepth(t2)

\* A faulty pop that returns any queued task.
PoppableAny(q) == BagToSet(queues[q])

\* The tasks ReadyQueue::pop may return: those no queued task precedes.
Poppable(q) ==
  {task \in BagToSet(queues[q]) :
     \A other \in BagToSet(queues[q]) : ~HigherPriority(other, task)}

(***************************************************************************)
(* History: counters that only record what happened.                       *)
(***************************************************************************)
NotReturned == [status |-> "running", error |-> None, value |-> << >>]

NoHist ==
  [pushed |-> [g \in 1..MaxGraphTasks |-> 0],     \* push(item, true) calls
   processed |-> [g \in 1..MaxGraphTasks |-> 0],  \* tasks a worker finished
   enqueued |-> EmptyBag,                         \* <<g, node>> pushed
   evaluated |-> EmptyBag,                        \* <<g, node>> evaluate_function
   applied |-> EmptyBag,                          \* <<g, node>> apply invoked
   captured |-> EmptyBag,                         \* <<g, output_idx>> written
   future_sets |-> [g \in 1..MaxGraphTasks |-> 0],\* markCompleted/setError
   first_error |-> [g \in 1..MaxGraphTasks |-> None],
   exceptions |-> [g \in 1..MaxGraphTasks |-> 0], \* set_exception calls
   skipped |-> [g \in 1..MaxGraphTasks |-> 0],    \* tasks popped, not evaluated
   cb_queued |-> EmptyBag,                        \* <<callback, g>> registered
   cb_ran |-> EmptyBag,                           \* callback invoked, by GraphTask
   returned |-> [g \in 1..MaxGraphTasks |-> NotReturned], \* how execute ended
   toplevel |-> {},                               \* GraphTasks of top-level calls
   pooled |-> {},                                 \* GraphTasks handed to the pool
   parent |-> [g \in 1..MaxGraphTasks |-> NoGT], \* GraphTask of the calling node
   synced |-> [g \in 1..MaxGraphTasks |-> {}]]   \* event recorded, stream waiting

Count(b, x) == CopiesIn(x, b)

(***************************************************************************)
(* Init: the engine after start_device_threads; no execute call yet.       *)
(***************************************************************************)
InitTls(t) ==
  [worker_device |-> IF t \in DeviceThreads THEN t[2] ELSE NO_DEVICE,
   local_ready_queue |-> IF t \in DeviceThreads THEN DeviceQueue(t[2]) ELSE NoQueue,
   current_depth |-> 0,
   total_depth |-> 0,
   checkpoint_valid |-> TRUE,
   parent_ready_queue |-> NoQueue,
   calls |-> 0]

EngineStart ==
  /\ gts = << >>
  /\ queues = [q \in QueueIds |-> EmptyBag]
  /\ stack = [t \in Threads |->
                IF t \in DeviceThreads
                THEN << Frame("thread_main", LoopPc(FALSE), NoGT, FALSE) >>
                ELSE << >>]
  /\ tls = [t \in Threads |-> InitTls(t)]
  /\ pool = [num_workers_ |-> 0, graphtasks_queue_ |-> << >>, spawned |-> 0]
  /\ final_callbacks_ = << >>
  /\ fault = None
  /\ hist = NoHist

Init == run \in Runs /\ EngineStart

(***************************************************************************)
(* Engine::execute and the first part of execute_with_graph_task, up to    *)
(* the unlock of the GraphTask's mutex: the callbacks guard, the choice of *)
(* the CPU queue, the new GraphTask with its dependencies and exec_info_,  *)
(* the push of the GraphRoot task, the owner and the depth counters.       *)
(* below is the caller's stack under the new execute frame.                *)
(***************************************************************************)
\* ClearCallbacks::clear, run by the guard's constructor and destructor.
ClearCallbacks(callbacks) == << >>

\* A faulty choice that never offloads to the pool.
ReentrantDriveAlwaysInline(current_depth, max_depth) == "inline"

\* Line 797.
ReentrantDrive(current_depth, max_depth) ==
  IF current_depth >= max_depth THEN "pool" ELSE "inline"

NewDepth(worker_device, total_depth) ==
  IF worker_device = NO_DEVICE THEN 0 ELSE total_depth + 1

Execute(t, roots, outputs, below) ==
  LET me == tls[t]
      is_reentrant_call == me.worker_device # NO_DEVICE
      g == Len(gts) + 1
      memorized_cpu_ready_queue == IF is_reentrant_call THEN me.local_ready_queue ELSE g
      fresh == NewGraphTask(roots, outputs,
                            NewDepth(me.worker_device, me.total_depth),
                            memorized_cpu_ready_queue)
      root_task == NodeTask(g, GraphRootNode, InputBuffer(0))
      drive == IF ~is_reentrant_call THEN "toplevel"
               ELSE ReentrantDrive(me.current_depth, run.max_recursion_depth_)
      owner == IF is_reentrant_call THEN me.worker_device ELSE CPU_DEVICE
      gt == [fresh EXCEPT !.outstanding_tasks_ = @ + PushCount(g, TRUE),
                          !.owner_ = owner]
      exec_frame == [Frame("execute",
                           CASE drive = "toplevel" -> "in_main"
                             [] drive = "inline" -> "in_inline"
                             [] OTHER -> "addpool",
                           g, FALSE)
                       EXCEPT !.depths_at_entry =
                                 << me.current_depth, me.total_depth >>]
      main_frame == Frame("thread_main", LoopPc(drive = "inline"),
                          IF drive = "inline" THEN g ELSE NoGT, drive = "inline")
  IN
  /\ Len(gts) < MaxGraphTasks
  /\ IF ~is_reentrant_call /\ me.local_ready_queue # NoQueue
     THEN \* init_local_ready_queue: TORCH_INTERNAL_ASSERT(!local_ready_queue)
          /\ fault' = "init_local_ready_queue"
          /\ UNCHANGED << gts, queues, stack, tls, final_callbacks_, hist >>
     ELSE /\ final_callbacks_' = ClearCallbacks(final_callbacks_)
          /\ gts' = Append(gts, gt)
          /\ queues' = [queues EXCEPT
                          ![ready_queue(gt, CPU_DEVICE)] = @ (+) One(root_task)]
          /\ stack' = [stack EXCEPT ![t] =
                         IF drive = "pool" THEN Append(below, exec_frame)
                         ELSE below \o << exec_frame, main_frame >>]
          /\ tls' = [tls EXCEPT ![t] =
                       CASE drive = "toplevel" ->
                              [me EXCEPT !.worker_device = CPU_DEVICE,
                                         !.local_ready_queue = g,
                                         !.calls = @ + 1]
                         [] drive = "inline" ->
                              [me EXCEPT !.total_depth = @ + 1,
                                         !.current_depth = @ + 1]
                         [] OTHER -> me]
          /\ hist' = [hist EXCEPT !.pushed[g] = @ + 1,
                                  !.enqueued = @ (+) One(<< g, GraphRootNode >>),
                                  !.toplevel = IF below = << >> THEN @ \cup {g}
                                               ELSE @,
                                  !.parent[g] =
                                     IF below = << >> THEN NoGT
                                     ELSE below[Len(below)].local_graph_task]
          /\ fault' = fault
  /\ UNCHANGED << run, pool >>

\* A caller thread calls execute from outside the engine.
RECURSIVE NestedCalls(_)
NestedCalls(nodes) ==
  IF nodes = {} THEN 0
  ELSE LET n == CHOOSE x \in nodes : TRUE
       IN Len(run.reenter[n]) + NestedCalls(nodes \ {n})

GraphTasksPerCall == 1 + NestedCalls(DOMAIN run.reenter)

\* The Engine has not been destroyed: no shutdown task was sent to a device
\* thread.
EngineAlive ==
  \A d \in DeviceThreads :
     stack[d] # << >> /\ CopiesIn(ShutdownTask, queues[DeviceQueue(d[2])]) = 0

\* execute is called from outside the engine, on an Engine that exists.
TopLevelExecute(t) ==
  /\ fault = None
  /\ EngineAlive
  /\ t \in run.callers
  /\ stack[t] = << >>
  /\ tls[t].calls < run.calls
  /\ Len(gts) + GraphTasksPerCall <= MaxGraphTasks
  /\ Execute(t, run.roots, run.outputs, << >>)

(***************************************************************************)
(* Engine::thread_main                                                     *)
(***************************************************************************)
\* thread_main returns to the frame that called it: execute_with_graph_task
\* (top-level: lines 788-793; inline reentrant: lines 815-820) or
\* reentrant_thread_init, which loops; a device thread ends.
\* What a failed TORCH_INTERNAL_ASSERT throws.
InternalAssert == "INTERNAL ASSERT FAILED"

\* A faulty exit that leaves the thread-locals as the run set them.
KeepThreadLocals(me) == me

\* Lines 791-792: the top-level execute puts the thread back as it found it.
ResetThreadLocals(me) ==
  [me EXCEPT !.worker_device = NO_DEVICE, !.local_ready_queue = NoQueue]

ReturnFromThreadMain(t) ==
  LET below == Below(t)
      caller == below[Len(below)]
      me == tls[t]
  IN
  IF below = << >>
  THEN /\ stack' = [stack EXCEPT ![t] = << >>]
       /\ UNCHANGED << tls, fault >>
  ELSE IF caller.kind = "execute" /\ caller.pc = "in_main"
  THEN /\ stack' = [stack EXCEPT ![t] =
                      [below EXCEPT ![Len(below)].pc = "wait"]]
       /\ tls' = [tls EXCEPT ![t] = ResetThreadLocals(me)]
       /\ fault' = fault
  ELSE IF caller.kind = "execute" /\ caller.pc = "in_inline"
  THEN \* line 818: TORCH_INTERNAL_ASSERT(future_result_->completed()) throws
       /\ stack' = [stack EXCEPT ![t] =
                      IF gts[caller.graph_task].future_result_.completed
                      THEN [below EXCEPT ![Len(below)].pc = "wait"]
                      ELSE [below EXCEPT ![Len(below)].pc = "throw",
                                         ![Len(below)].exc = InternalAssert]]
       /\ tls' = [tls EXCEPT ![t] = [me EXCEPT !.current_depth = @ - 1,
                                                !.total_depth = @ - 1]]
       /\ fault' = fault
  ELSE /\ stack' = [stack EXCEPT ![t] =
                      [below EXCEPT ![Len(below)].pc = "start",
                                    ![Len(below)].graph_task = NoGT]]
       /\ UNCHANGED << tls, fault >>

\* The loop condition (line 292).
LoopContinues(reentrant_thread, outstanding) == ~reentrant_thread \/ outstanding > 0

TM_Loop(t) ==
  /\ At(t, "thread_main", "loop")
  /\ LET f == Top(t) IN
     IF LoopContinues(f.reentrant_thread,
                      IF f.reentrant_thread
                      THEN gts[f.graph_task].outstanding_tasks_ ELSE 0)
     THEN /\ stack' = WithTop(t, [f EXCEPT !.pc = "pop"])
          /\ UNCHANGED << tls, fault >>
     ELSE ReturnFromThreadMain(t)
  /\ UNCHANGED << run, gts, queues, pool, final_callbacks_, hist >>

\* local_ready_queue->pop() (blocks while the queue is empty), the shutdown
\* test and the upgrade of the task's weak pointer (lines 293-312).
TM_Pop(t) ==
  /\ At(t, "thread_main", "pop")
  /\ tls[t].local_ready_queue # NoQueue
  /\ \E task \in Poppable(tls[t].local_ready_queue) :
       LET f == Top(t) IN
       /\ queues' = [queues EXCEPT ![tls[t].local_ready_queue] = @ (-) One(task)]
       /\ IF task.isShutdownTask
          THEN ReturnFromThreadMain(t)
          ELSE IF Expired(task.base) /\ f.reentrant_thread
          THEN \* line 308: TORCH_INTERNAL_ASSERT(!reentrant_thread) throws out
               \* of thread_main: into execute_with_graph_task (line 814), or
               \* out of the thread function of a pool worker (std::terminate)
               /\ stack' = IF Below(t)[Len(Below(t))].kind = "execute"
                            THEN [stack EXCEPT ![t] =
                                    [Below(t) EXCEPT
                                       ![Len(Below(t))].pc = "throw",
                                       ![Len(Below(t))].exc = InternalAssert]]
                            ELSE stack
               /\ fault' = IF Below(t)[Len(Below(t))].kind = "execute"
                            THEN fault ELSE "terminate"
               /\ tls' = tls
          ELSE IF Expired(task.base)
          THEN /\ stack' = WithTop(t, [f EXCEPT !.pc = LoopPc(f.reentrant_thread)])
               \* line 309 reads task.fn_->name(), which is undefined for a
               \* task without fn_: the process may crash or go on
               /\ fault' \in (IF task.fn = None THEN {"null_fn_name", fault}
                              ELSE {fault})
               /\ tls' = tls
          ELSE /\ stack' = WithTop(t, [f EXCEPT !.pc = "eval", !.task = task,
                                                !.local_graph_task = task.base,
                                                !.after_error = gts[task.base].has_error_])
               /\ UNCHANGED << tls, fault >>
  /\ UNCHANGED << run, gts, pool, final_callbacks_, hist >>

\* The guard of line 314 and evaluate_function up to the call of
\* call_function (lines 538-554): captures and the needed_ test.
\* A faulty loop that stops after the first capture of the node.
WriteCapturesFirstOnly(captured, captures, i, inputs) ==
  IF captures = << >> THEN captured
  ELSE [captured EXCEPT ![captures[1].output_idx_] = inputs[captures[1].input_idx_]]

RECURSIVE WriteCaptures(_, _, _, _)
WriteCaptures(captured, captures, i, inputs) ==
  IF i > Len(captures) THEN captured
  ELSE CHOOSE r \in {WriteCaptures(captured1, captures, i + 1, inputs) : captured1 \in
         {[captured EXCEPT ![captures[i].output_idx_] =
                             inputs[captures[i].input_idx_]]}} : TRUE

\* A faulty guard that evaluates a task whatever has_error_ is.
ShouldEvaluateAnyway(fn, has_error) == fn # None

\* Line 314.
ShouldEvaluate(fn, has_error) == fn # None /\ ~has_error

\* GraphTask::can_checkpoint: no outputs were requested.
can_checkpoint(gt) == gt.exec_info_ = << >>

TM_Eval(t) ==
  /\ At(t, "thread_main", "eval")
  /\ LET f == Top(t)
         g == f.local_graph_task
         gt == gts[g]
         fn == f.task.fn
         instrumented == gt.exec_info_ # << >>
     IN
     IF ~ShouldEvaluate(fn, gt.has_error_)
     THEN /\ stack' = WithTop(t, [f EXCEPT !.pc = "dec"])
          /\ hist' = [hist EXCEPT !.skipped[g] = @ + (IF fn # None THEN 1 ELSE 0)]
          /\ UNCHANGED << gts, tls >>
     ELSE IF instrumented /\ fn \notin DOMAIN gt.exec_info_
     THEN \* exec_info_.at(func) throws std::out_of_range
          /\ stack' = WithTop(t, [f EXCEPT !.pc = "raise", !.exc = "out_of_range"])
          /\ hist' = [hist EXCEPT !.evaluated = @ (+) One(<< g, fn >>)]
          /\ UNCHANGED << gts, tls >>
     ELSE LET fn_info == IF instrumented THEN gt.exec_info_[fn] ELSE NoExecInfo
              needed == ~instrumented \/ fn_info.needed_
          IN
          /\ fn_info.captures_ # << >> => gt.mutex_ = Unlocked
          /\ gts' = [gts EXCEPT ![g].captured_vars_ =
                       WriteCaptures(@, fn_info.captures_, 1, f.task.inputs.vals)]
          /\ stack' = WithTop(t, [f EXCEPT
                                     !.pc = IF needed THEN "apply" ELSE "dec",
                                     !.prev_checkpoint_valid_state =
                                        tls[t].checkpoint_valid])
          \* call_function, lines 481-483
          /\ tls' = IF needed
                    THEN [tls EXCEPT ![t].checkpoint_valid = can_checkpoint(gt) /\ @]
                    ELSE tls
          /\ hist' = [hist EXCEPT
                        !.evaluated = @ (+) One(<< g, fn >>),
                        !.applied = IF needed THEN @ (+) One(<< g, fn >>) ELSE @,
                        !.captured = @ (+) SetToBag(
                           {<< g, fn_info.captures_[i].output_idx_ >> :
                              i \in 1..Len(fn_info.captures_)})]
  /\ UNCHANGED << run, queues, pool, final_callbacks_, fault >>

(***************************************************************************)
(* call_function: the node's apply.  A node of run.reenter calls execute   *)
(* from inside apply; a node of run.may_raise may raise; a node of         *)
(* run.cb_nodes registers a post-backward callback (queue_callback).       *)
(***************************************************************************)
ApplyOutputs(g, fn, vals) ==
  IF fn = GraphRootNode
  THEN [k \in 1..Len(gts[g].roots) |-> 1]
  ELSE [k \in 1..Len(next_edges(fn)) |-> NodeOutput(fn, k, vals)]

\* The nested execute calls apply of fn still has to make, after made calls.
MoreCalls(fn, made, exc) ==
  fn \in DOMAIN run.reenter /\ exc = None /\ made < Len(run.reenter[fn])

ApplyReenter(t) ==
  /\ fault = None
  /\ HasTop(t)
  /\ Top(t).kind = "thread_main"
  /\ Top(t).pc \in {"apply", "apply_ret"}
  /\ MoreCalls(Top(t).task.fn, Top(t).i, Top(t).exc)
  /\ Execute(t, run.reenter[Top(t).task.fn][Top(t).i + 1], << >>,
             Append(Below(t), [Top(t) EXCEPT !.pc = "apply_wait", !.i = @ + 1]))

ApplyDone(t) ==
  /\ fault = None
  /\ HasTop(t)
  /\ Top(t).kind = "thread_main"
  /\ Top(t).pc \in {"apply", "apply_ret"}
  /\ ~MoreCalls(Top(t).task.fn, Top(t).i, Top(t).exc)
  /\ LET f == Top(t)
         g == f.local_graph_task
         fn == f.task.fn
     IN \E raises \in (IF fn \in run.may_raise /\ f.exc = None
                       THEN BOOLEAN ELSE {FALSE}) :
        IF f.exc # None \/ raises
        THEN \* fn or validate_outputs throws: line 525 is not reached
             /\ stack' = WithTop(t, [f EXCEPT !.pc = "raise", !.i = 0,
                                      !.exc = IF raises THEN fn ELSE f.exc])
             /\ UNCHANGED << final_callbacks_, hist, tls >>
        ELSE /\ stack' = WithTop(t, [f EXCEPT !.pc = "dispatch", !.i = 0,
                                      !.outputs = ApplyOutputs(g, fn, f.task.inputs.vals)])
             /\ final_callbacks_' = IF fn \in run.cb_nodes
                                    THEN Append(final_callbacks_, << fn, g >>)
                                    ELSE final_callbacks_
             /\ hist' = IF fn \in run.cb_nodes
                        THEN [hist EXCEPT !.cb_queued = @ (+) One(<< fn, g >>)]
                        ELSE hist
             \* line 525
             /\ tls' = [tls EXCEPT ![t].checkpoint_valid =
                                      f.prev_checkpoint_valid_state]
  /\ UNCHANGED << run, gts, queues, pool, fault >>

(***************************************************************************)
(* evaluate_function after call_function (lines 567-656): the loop over    *)
(* the outputs under the GraphTask's mutex.  The state of the loop is the  *)
(* GraphTask, the queues and what was pushed; exc is set when the loop     *)
(* throws "dependency not found".                                          *)
(***************************************************************************)
\* A faulty decrement that declares the successor ready at once.
DecrementDependencyEarly(dependencies, node) ==
  [deps |-> MapErase(dependencies, node), is_ready |-> TRUE]

\* A faulty decrement that forgets the count: every arrival makes the
\* successor ready.
DecrementDependencyAlwaysReady(dependencies, node) ==
  [deps |-> dependencies, is_ready |-> TRUE]

\* A faulty decrement that never declares the successor ready.
DecrementDependencyNeverReady(dependencies, node) ==
  [deps |-> [dependencies EXCEPT ![node] = @ - 1], is_ready |-> FALSE]

\* Lines 604-610: the decrement of the successor's dependency count.
DecrementDependency(dependencies, node) ==
  IF dependencies[node] - 1 = 0
  THEN [deps |-> MapErase(dependencies, node), is_ready |-> TRUE]
  ELSE [deps |-> [dependencies EXCEPT ![node] = @ - 1], is_ready |-> FALSE]

\* A faulty test that never skips a successor.
SkipNextNever(exec_info, node) == FALSE

\* Lines 616-621: a function that is not supposed to be executed.
SkipNext(exec_info, node) ==
  /\ exec_info # << >>
  /\ node \notin DOMAIN exec_info \/ ~should_execute(exec_info[node])

DispatchOne(g, fn, out, next, st) ==
  LET gt == st.gt
      node == next.function
  IN
  IF ~is_valid(next) THEN st
  ELSE IF node \notin DOMAIN gt.dependencies_
  THEN [st EXCEPT !.exc = "dependency not found"]
  ELSE LET dec == DecrementDependency(gt.dependencies_, node)
           gt1 == [gt EXCEPT !.dependencies_ = dec.deps]
           has_buffer == node \in DOMAIN gt.not_ready_
       IN IF ~has_buffer /\ SkipNext(gt.exec_info_, node)
          THEN [st EXCEPT !.gt = gt1]
          ELSE LET old == IF has_buffer THEN gt.not_ready_[node]
                          ELSE InputBuffer(num_inputs(node))
                   input_buffer == BufferAdd(old, next.input_nr, out, fn)
               IN IF dec.is_ready
                  THEN [st EXCEPT
                          !.gt = [gt1 EXCEPT
                                    !.not_ready_ = MapErase(@, node),
                                    !.outstanding_tasks_ = @ + PushCount(g, TRUE)],
                          !.pushes = Append(@,
                             [queue |-> ready_queue(gt, NodeDevice(node)),
                              task |-> NodeTask(g, node, input_buffer)])]
                  ELSE [st EXCEPT
                          !.gt = [gt1 EXCEPT
                                    !.not_ready_ = MapPut(@, node, input_buffer)]]

RECURSIVE DispatchLoop(_, _, _, _, _, _)
DispatchLoop(g, fn, outputs, edges, i, st) ==
  IF i > Len(outputs) \/ st.exc # None THEN st
  ELSE CHOOSE r \in {DispatchLoop(g, fn, outputs, edges, i + 1, st1) : st1 \in
         {DispatchOne(g, fn, outputs[i], edges[i], st)}} : TRUE

RECURSIVE PushAll(_, _, _)
PushAll(qs, pushes, i) ==
  IF i > Len(pushes) THEN qs
  ELSE CHOOSE r \in {PushAll(qs1, pushes, i + 1) : qs1 \in
         {[qs EXCEPT ![pushes[i].queue] = @ (+) One(pushes[i].task)]}} : TRUE

RECURSIVE NoteAll(_, _, _)
NoteAll(bag, pushes, i) ==
  IF i > Len(pushes) THEN bag
  ELSE CHOOSE r \in {NoteAll(bag1, pushes, i + 1) : bag1 \in
         {bag (+) One(<< pushes[i].task.base, pushes[i].task.fn >>)}} : TRUE

\* Node::stream: the stream a node on a device runs on, if any.
NodeStream(fn) ==
  IF fn = GraphRootNode \/ NodeDevice(fn) = CPU_DEVICE THEN NoStream
  ELSE IF fn \in run.side_streams THEN Stream(NodeDevice(fn), 1)
  ELSE getDefaultStream(NodeDevice(fn))

\* Lines 570-574.
RecordsLeafStream(num_outputs, opt_parent_stream) ==
  num_outputs = 0 /\ opt_parent_stream # NoStream

Dispatch(t) ==
  /\ At(t, "thread_main", "dispatch")
  /\ LET f == Top(t)
         g == f.local_graph_task
         fn == f.task.fn
         opt_parent_stream == NodeStream(fn)
         records == RecordsLeafStream(Len(f.outputs), opt_parent_stream)
         done == DispatchLoop(g, fn, f.outputs, EdgesOf(gts[g].roots, fn), 1,
                              [gt |-> gts[g], pushes |-> << >>, exc |-> None])
     IN
     /\ (Len(f.outputs) > 0 \/ records) => gts[g].mutex_ = Unlocked
     /\ gts' = [gts EXCEPT ![g] =
                  IF records
                  THEN [done.gt EXCEPT !.leaf_streams = @ \cup {opt_parent_stream}]
                  ELSE done.gt]
     /\ queues' = PushAll(queues, done.pushes, 1)
     /\ hist' = [hist EXCEPT !.pushed[g] = @ + Len(done.pushes),
                             !.enqueued = NoteAll(@, done.pushes, 1)]
     /\ stack' = WithTop(t, [f EXCEPT
                    !.pc = IF done.exc # None THEN "raise" ELSE "dec",
                    !.exc = done.exc, !.outputs = << >>])
  /\ UNCHANGED << run, tls, pool, final_callbacks_, fault >>

(***************************************************************************)
(* GraphTask::set_exception, reached from the catch of thread_main         *)
(***************************************************************************)
\* What set_exception does to the future: first writer wins.
SetError(future, msg) ==
  IF ~future.completed
  THEN [future EXCEPT !.completed = TRUE, !.hasError = TRUE, !.error = msg]
  ELSE future

\* Lines 391-401: only the first exception of a GraphTask is latched.
set_exception(gt, msg) ==
  IF ~gt.has_error_
  THEN [gt EXCEPT !.has_error_ = TRUE, !.future_result_ = SetError(@, msg)]
  ELSE gt

SetException(t) ==
  /\ At(t, "thread_main", "raise")
  /\ LET f == Top(t)
         g == f.local_graph_task
         gt == gts[g]
     IN
     /\ gt.mutex_ = Unlocked
     /\ gts' = [gts EXCEPT ![g] = set_exception(gt, f.exc)]
     /\ hist' = [hist EXCEPT
                   !.first_error[g] = IF @ = None THEN f.exc ELSE @,
                   !.exceptions[g] = @ + 1,
                   !.future_sets[g] =
                      @ + (IF gts'[g].future_result_ # gt.future_result_
                           THEN 1 ELSE 0)]
     \* line 399: TORCH_INTERNAL_ASSERT(future_result_->hasError())
     /\ fault' = IF /\ ~gt.has_error_
                    /\ gt.future_result_.completed
                    /\ ~gt.future_result_.hasError
                 THEN "assert_future_has_error" ELSE fault
     /\ stack' = WithTop(t, [f EXCEPT !.pc = "dec", !.exc = None])
  /\ UNCHANGED << run, queues, tls, pool, final_callbacks_ >>

(***************************************************************************)
(* thread_main, lines 323-353                                              *)
(***************************************************************************)
\* --local_graph_task->outstanding_tasks_
Dec(t) ==
  /\ At(t, "thread_main", "dec")
  /\ LET f == Top(t)
         g == f.local_graph_task
     IN
     /\ gts' = [gts EXCEPT ![g].outstanding_tasks_ = @ - 1]
     /\ hist' = [hist EXCEPT !.processed[g] = @ + 1]
     /\ stack' = WithTop(t, [f EXCEPT !.pc = "check", !.task = NoTask,
                                       !.after_error = FALSE])
  /\ UNCHANGED << run, queues, tls, pool, final_callbacks_, fault >>

\* bool gt_completed = graph_task_completed(local_graph_task)
Check(t) ==
  /\ At(t, "thread_main", "check")
  /\ LET f == Top(t)
         completed == graph_task_completed(gts[f.local_graph_task])
     IN stack' = WithTop(t,
          IF completed THEN [f EXCEPT !.pc = "mark", !.gt_completed = TRUE]
          ELSE [f EXCEPT !.pc = LoopPc(f.reentrant_thread),
                         !.local_graph_task = NoGT])
  /\ UNCHANGED << run, gts, queues, tls, pool, final_callbacks_, fault, hist >>

\* mark_graph_task_completed up to the loop over the callbacks: the test of
\* the future and the not_ready_ test of graph_task_exec_post_processing.
\* A faulty test that lets a completed future be completed again.
NeverAlreadyCompleted(future) == FALSE

\* Line 834.
AlreadyCompleted(future) == future.completed

MarkBegin(t) ==
  /\ At(t, "thread_main", "mark")
  /\ LET f == Top(t)
         g == f.local_graph_task
         gt == gts[g]
     IN
     /\ gt.mutex_ = Unlocked
     /\ IF AlreadyCompleted(gt.future_result_)
        THEN /\ stack' = WithTop(t, [f EXCEPT !.pc = "marked"])
             /\ UNCHANGED << gts, hist >>
        ELSE IF gt.not_ready_ # << >>
        THEN /\ gts' = [gts EXCEPT ![g].future_result_ =
                          [@ EXCEPT !.completed = TRUE, !.hasError = TRUE,
                             !.error = "could not compute gradients for some functions"]]
             /\ hist' = [hist EXCEPT !.future_sets[g] = @ + 1]
             /\ stack' = WithTop(t, [f EXCEPT !.pc = "marked"])
        ELSE /\ gts' = [gts EXCEPT ![g].mutex_ = t]
             /\ stack' = WithTop(t, [f EXCEPT !.pc = "callbacks", !.i = 0])
             /\ hist' = hist
  /\ UNCHANGED << run, queues, tls, pool, final_callbacks_, fault >>

\* A faulty test that syncs no leaf stream.
NeedsSyncNever(leaf_stream, default_stream) == FALSE

\* Line 872.
NeedsSync(leaf_stream, default_stream) == leaf_stream # default_stream

\* Lines 869-877: the events recorded on leaf streams and the default stream
\* made to wait for each.
SyncLeafStreams(leaf_streams) ==
  {[recorded_on |-> leaf_stream, waiting |-> getDefaultStream(leaf_stream[1])] :
     leaf_stream \in {s \in leaf_streams : NeedsSync(s, getDefaultStream(s[1]))}}

\* One turn of the loop over final_callbacks_ (lines 861-865), and after it
\* the sync of the leaf streams (lines 867-877), the return of
\* captured_vars_ and markCompleted (line 841), all under the GraphTask's
\* mutex.
PostProcess(t) ==
  /\ At(t, "thread_main", "callbacks")
  /\ LET f == Top(t)
         g == f.local_graph_task
     IN
     IF f.i < Len(final_callbacks_)
     THEN /\ hist' = [hist EXCEPT !.cb_ran =
                          @ (+) One([callback |-> final_callbacks_[f.i + 1], by |-> g])]
          /\ stack' = WithTop(t, [f EXCEPT !.i = @ + 1])
          /\ gts' = gts
     ELSE /\ gts' = [gts EXCEPT
                       ![g].mutex_ = Unlocked,
                       ![g].future_result_ =
                          [@ EXCEPT !.completed = TRUE,
                                    !.value = gts[g].captured_vars_]]
          /\ hist' = [hist EXCEPT !.future_sets[g] = @ + 1,
                                  !.synced[g] = @ \cup SyncLeafStreams(gts[g].leaf_streams)]
          /\ stack' = WithTop(t, [f EXCEPT !.pc = "marked", !.i = 0])
  /\ UNCHANGED << run, queues, tls, pool, final_callbacks_, fault >>

\* A faulty test that wakes the owner whoever completes the GraphTask.
NeedsWakeUpAlways(base_owner, worker_device, gt_completed) == gt_completed

\* Lines 337-353: the CPU worker leaves the loop; any other worker wakes the
\* owner with a task that has no fn_.
NeedsWakeUp(base_owner, worker_device, gt_completed) ==
  base_owner # worker_device /\ gt_completed

AfterMark(t) ==
  /\ At(t, "thread_main", "marked")
  /\ LET f == Top(t)
         g == f.local_graph_task
         gt == gts[g]
     IN
     IF tls[t].worker_device = CPU_DEVICE
     THEN /\ ReturnFromThreadMain(t)
          /\ UNCHANGED << gts, queues, hist >>
     ELSE /\ stack' = WithTop(t, [f EXCEPT !.pc = LoopPc(f.reentrant_thread),
                                            !.gt_completed = FALSE,
                                            !.local_graph_task = NoGT])
          /\ IF NeedsWakeUp(gt.owner_, tls[t].worker_device, f.gt_completed)
             THEN /\ queues' = [queues EXCEPT ![ready_queue(gt, gt.owner_)] =
                                   @ (+) One(NodeTask(g, None, InputBuffer(0)))]
                  /\ gts' = [gts EXCEPT ![g].outstanding_tasks_ =
                                   @ + PushCount(g, TRUE)]
                  /\ hist' = [hist EXCEPT !.pushed[g] = @ + 1]
             ELSE UNCHANGED << gts, queues, hist >>
          /\ UNCHANGED << tls, fault >>
  /\ UNCHANGED << run, pool, final_callbacks_ >>

(***************************************************************************)
(* The end of execute: future_result_->wait() returns the value or throws  *)
(* the error, and ~ClearCallbacks clears the callbacks.                    *)
(***************************************************************************)
Raised(msg) == [status |-> "raised", error |-> msg, value |-> << >>]

\* Future::wait: the value, or the error rethrown.
Outcome(future) ==
  IF future.hasError THEN Raised(future.error)
  ELSE [status |-> "returned", error |-> None, value |-> future.value]

\* execute ends when the future it waits on is completed, or by unwinding
\* when an internal assertion has thrown (pc "throw").
ExecuteReturn(t) ==
  /\ fault = None
  /\ HasTop(t)
  /\ Top(t).kind = "execute"
  /\ IF Top(t).pc = "wait"
     THEN gts[Top(t).graph_task].future_result_.completed
     ELSE Top(t).pc = "throw"
  /\ LET f == Top(t)
         g == f.graph_task
         outcome == IF f.pc = "throw" THEN Raised(f.exc)
                    ELSE Outcome(gts[g].future_result_)
         below == Below(t)
     IN
     /\ final_callbacks_' = ClearCallbacks(final_callbacks_)
     /\ hist' = [hist EXCEPT !.returned[g] = outcome]
     /\ stack' = [stack EXCEPT ![t] =
                    IF below = << >> THEN << >>
                    ELSE [below EXCEPT ![Len(below)].pc = "apply_ret",
                                       ![Len(below)].exc = outcome.error]]
  /\ UNCHANGED << run, gts, queues, tls, pool, fault >>

(***************************************************************************)
(* The reentrant thread pool                                               *)
(***************************************************************************)
\* A faulty test that spawns only when the queue is longer than the number
\* of idle workers.
CreateThreadStrict(num_workers, queue_size) == num_workers < queue_size

\* Line 983.
CreateThread(num_workers, queue_size) == num_workers <= queue_size

AddThreadPoolTask(t) ==
  /\ At(t, "execute", "addpool")
  /\ LET f == Top(t)
         create_thread == CreateThread(pool.num_workers_, Len(pool.graphtasks_queue_))
         p == << "pool", pool.spawned + 1 >>
     IN
     /\ create_thread => pool.spawned < MaxPoolWorkers
     /\ pool' = [pool EXCEPT
                   !.graphtasks_queue_ = Append(@, f.graph_task),
                   !.spawned = IF create_thread THEN @ + 1 ELSE @]
     /\ stack' = IF create_thread
                 THEN [WithTop(t, [f EXCEPT !.pc = "wait"]) EXCEPT
                         ![p] = << Frame("pool", "start", NoGT, FALSE) >>]
                 ELSE WithTop(t, [f EXCEPT !.pc = "wait"])
     /\ tls' = IF create_thread
               THEN [tls EXCEPT ![p].parent_ready_queue = tls[t].local_ready_queue]
               ELSE tls
     /\ hist' = [hist EXCEPT !.pooled = @ \cup {f.graph_task}]
  /\ UNCHANGED << run, gts, queues, final_callbacks_, fault >>

\* reentrant_thread_init, lines 361-363: the worker counts itself idle and
\* waits for the pool's queue to be non-empty.
PoolStart(p) ==
  /\ At(p, "pool", "start")
  /\ pool' = [pool EXCEPT !.num_workers_ = @ + 1]
  /\ stack' = WithTop(p, [Top(p) EXCEPT !.pc = "waiting"])
  /\ UNCHANGED << run, gts, queues, tls, final_callbacks_, fault, hist >>

\* Lines 364-376: take a GraphTask and drive it.
PoolTake(p) ==
  /\ At(p, "pool", "waiting")
  /\ pool.graphtasks_queue_ # << >>
  /\ LET g == Head(pool.graphtasks_queue_)
         me == tls[p]
     IN
     /\ pool' = [pool EXCEPT !.num_workers_ = @ - 1,
                             !.graphtasks_queue_ = Tail(@)]
     /\ IF Expired(g)
        THEN /\ stack' = WithTop(p, [Top(p) EXCEPT !.pc = "start"])
             /\ UNCHANGED << tls, fault >>
        ELSE /\ tls' = [tls EXCEPT ![p] =
                          [me EXCEPT !.worker_device = gts[g].owner_,
                                     !.local_ready_queue = me.parent_ready_queue,
                                     !.total_depth = gts[g].reentrant_depth_]]
             \* init_local_ready_queue: TORCH_INTERNAL_ASSERT(!local_ready_queue)
             /\ fault' = IF me.local_ready_queue # NoQueue
                         THEN "init_local_ready_queue" ELSE fault
             /\ stack' = [stack EXCEPT ![p] =
                            << [Top(p) EXCEPT !.pc = "driving", !.graph_task = g],
                               Frame("thread_main", "loop", g, TRUE) >>]
  /\ UNCHANGED << run, gts, queues, final_callbacks_, hist >>

(***************************************************************************)
(* Engine::~Engine (lines 203-214), run when no caller is inside execute:  *)
(* if every device queue is empty each one gets a shutdown task.           *)
(***************************************************************************)
noBackward == \A d \in DeviceThreads : queues[DeviceQueue(d[2])] = EmptyBag

EngineDestroy ==
  /\ fault = None
  /\ EngineAlive
  /\ \A c \in CallerThreads : stack[c] = << >>
  /\ noBackward
  /\ queues' = [q \in QueueIds |->
                  IF \E d \in DeviceThreads : DeviceQueue(d[2]) = q
                  THEN queues[q] (+) One(ShutdownTask) ELSE queues[q]]
  /\ UNCHANGED << run, gts, stack, tls, pool, final_callbacks_, fault, hist >>

(***************************************************************************)
(* The specification                                                       *)
(***************************************************************************)
ThreadStep(t) ==
  \/ TopLevelExecute(t)
  \/ ApplyReenter(t)
  \/ ExecuteReturn(t)
  \/ AddThreadPoolTask(t)
  \/ PoolStart(t)
  \/ PoolTake(t)
  \/ TM_Loop(t)
  \/ TM_Pop(t)
  \/ TM_Eval(t)
  \/ ApplyDone(t)
  \/ Dispatch(t)
  \/ SetException(t)
  \/ Dec(t)
  \/ Check(t)
  \/ MarkBegin(t)
  \/ PostProcess(t)
  \/ AfterMark(t)

Next == (\E t \in Threads : ThreadStep(t)) \/ EngineDestroy

Spec == Init /\ [][Next]_vars

\* The same behaviours with every thread scheduled fairly: a thread that can
\* take a step eventually takes one.
FairSpec == Spec /\ \A t \in Threads : WF_vars(ThreadStep(t))

\* What execute builds: the GraphTask of one top-level call, for every
\* choice of roots and outputs of BuildRuns, before any task is processed.
BuildInit == run \in BuildRuns /\ EngineStart
BuildNext == \E t \in CallerThreads : TopLevelExecute(t)
BuildSpec == BuildInit /\ [][BuildNext]_vars

\* The fair behaviours of the run in which the reentrant call goes to the pool.
PoolInit == Init /\ run.name = "pool"
FairPoolSpec ==
  PoolInit /\ [][Next]_vars /\ \A t \in Threads : WF_vars(ThreadStep(t))

\* The fair behaviours of the runs with reentrant calls.
ReentrantInit ==
  Init /\ run.name \in {"inline", "inline_twice", "pool", "pool_twice",
                        "device_inline", "deep"}
FairReentrantSpec ==
  ReentrantInit /\ [][Next]_vars /\ \A t \in Threads : WF_vars(ThreadStep(t))

\* The fair behaviours of the runs that hand GraphTasks to the pool, from one
\* caller and from two callers at the same time.
PoolAddInit == Init /\ run.name \in {"pool", "pool_pair"}
FairPoolAddSpec ==
  PoolAddInit /\ [][Next]_vars /\ \A t \in Threads : WF_vars(ThreadStep(t))

(***************************************************************************)
(* Vocabulary of the properties                                            *)
(***************************************************************************)
GTs == 1..Len(gts)
AllNodes == Nodes \cup {GraphRootNode}

ValidTargets(edges) ==
  {edges[i].function : i \in {j \in 1..Len(edges) : is_valid(edges[j])}}

\* The nodes reachable from a set of nodes along valid edges.
RECURSIVE ReachableFrom(_, _)
ReachableFrom(frontier, seen) ==
  IF frontier \subseteq seen THEN seen
  ELSE ReachableFrom(UNION {ValidTargets(next_edges(n)) : n \in frontier \ seen},
                     seen \cup frontier)

ReachableNodes(g) ==
  ReachableFrom(ValidTargets(gts[g].roots), {}) \cup {GraphRootNode}

\* The reachable nodes exec_info_ does not mask out.
Unmasked(g) ==
  {n \in ReachableNodes(g) :
     \/ gts[g].exec_info_ = << >>
     \/ n \in DOMAIN gts[g].exec_info_ /\ should_execute(gts[g].exec_info_[n])}

\* The executed predecessors of node s in GraphTask g, and the slots they fill.
Preds(g, s) ==
  {p \in Unmasked(g) : s \in ValidTargets(EdgesOf(gts[g].roots, p))}
SlotsOf(g, s) ==
  {k \in 0..(num_inputs(s) - 1) :
     \E p \in Preds(g, s) :
        \E i \in 1..Len(EdgesOf(gts[g].roots, p)) :
           EdgesOf(gts[g].roots, p)[i] = Edge(s, k)}

\* Every NodeTask that exists: in a ready queue or held by a worker.
QueuedTasks == UNION {BagToSet(queues[q]) : q \in QueueIds}
FramesOf(t) == {stack[t][k] : k \in 1..Len(stack[t])}
HeldTasks == {f.task : f \in UNION {FramesOf(t) : t \in Threads}} \ {NoTask}

Ended(g) == hist.returned[g].status # "running"

(***************************************************************************)
(* Properties                                                              *)
(***************************************************************************)
\* C1: in one GraphTask no node is pushed onto a ready queue twice or
\* evaluated twice, and when execute has returned a value every reachable
\* node that exec_info_ does not mask out was pushed exactly once and
\* evaluated exactly once.
C1_EachNodeExactlyOnce ==
  \A g \in GTs :
    /\ \A n \in AllNodes :
         /\ Count(hist.enqueued, << g, n >>) <= 1
         /\ Count(hist.evaluated, << g, n >>) <= 1
    /\ hist.returned[g].status = "returned" =>
         \A n \in Unmasked(g) :
            /\ Count(hist.enqueued, << g, n >>) = 1
            /\ Count(hist.evaluated, << g, n >>) = 1

\* An execute over the diamond has returned a value and D, which has two
\* predecessors on different threads, was evaluated once.
C1_Witness ==
  \E g \in GTs :
    /\ hist.returned[g].status = "returned"
    /\ {"B", "C", "D"} \subseteq Unmasked(g)
    /\ Count(hist.evaluated, << g, "D" >>) = 1

\* C2: a NodeTask of node s exists (queued or being evaluated) only with a
\* buffer into which every executed predecessor of s has written its slot,
\* and a node has been evaluated only if all its executed predecessors have
\* been applied before: the order of execution is reverse-topological.
C2_SuccessorAfterPredecessors ==
  /\ \A task \in QueuedTasks \cup HeldTasks :
       task.fn \in Nodes =>
         /\ task.inputs.srcs = Preds(task.base, task.fn)
         /\ \A k \in SlotsOf(task.base, task.fn) : task.inputs.vals[k] # Undef
  /\ \A g \in GTs : \A s \in Nodes :
       Count(hist.evaluated, << g, s >>) >= 1 =>
          \A p \in Preds(g, s) : Count(hist.applied, << g, p >>) >= 1

\* D is being applied with the contributions of both B and C in its buffer.
C2_Witness ==
  \E t \in Threads :
    /\ HasTop(t)
    /\ Top(t).pc = "apply"
    /\ Top(t).task.fn = "D"
    /\ Top(t).task.inputs.srcs = {"B", "C"}
    /\ Top(t).task.inputs.vals = [k \in 0..1 |-> IF k = 0 THEN 3 ELSE 4]

\* C3: every execute call that has started eventually returns or raises
\* (or the process has ended by a crash).
C3_EveryExecuteEnds ==
  \A g \in 1..MaxGraphTasks :
    (Len(gts) >= g) ~> (Ended(g) \/ fault # None)

\* C4: a completed future_result_ never changes, it is written at most
\* once, and when execute has returned or raised it was written exactly once.
C4_FutureSetOnce ==
  /\ [][\A g \in GTs :
          gts[g].future_result_.completed =>
             gts'[g].future_result_ = gts[g].future_result_]_vars
  /\ [](\A g \in GTs : hist.future_sets[g] <= 1)
  /\ [](\A g \in GTs : Ended(g) => hist.future_sets[g] = 1)

\* C4, without its last part: a completed future_result_ never changes and
\* it is written at most once.
C4_FutureSetAtMostOnce ==
  /\ [][\A g \in GTs :
          gts[g].future_result_.completed =>
             gts'[g].future_result_ = gts[g].future_result_]_vars
  /\ [](\A g \in GTs : hist.future_sets[g] <= 1)

\* C5: once set_exception has latched an error for a GraphTask, its future
\* carries the message of the first exception that reached set_exception,
\* and execute, when it ends, raises that message and returns no value.
C5_FirstErrorWins ==
  \A g \in GTs :
    /\ gts[g].has_error_ =>
         /\ hist.first_error[g] # None
         /\ gts[g].future_result_.completed
         /\ gts[g].future_result_.hasError
         /\ gts[g].future_result_.error = hist.first_error[g]
    /\ (hist.first_error[g] # None /\ Ended(g)) =>
         hist.returned[g] = Raised(hist.first_error[g])

\* Two nodes of one GraphTask have raised and execute has raised.
C5_Witness ==
  \E g \in GTs :
    /\ hist.exceptions[g] = 2
    /\ hist.returned[g].status = "raised"

\* C6: a task popped (its GraphTask still alive) when has_error_ of its
\* GraphTask was already latched is never applied and never dispatches (it
\* stays before the decrement until it is decremented), its worker's next steps leave the queues and the
\* record of enqueued, evaluated and applied nodes alone and end with the
\* decrement of outstanding_tasks_; has_error_ is never cleared.
C6_SkippedAfterError ==
  /\ [](\A t \in Threads : \A f \in FramesOf(t) :
          f.after_error => f.kind = "thread_main" /\ f.pc \in {"eval", "dec"})
  /\ [][\A g \in GTs : gts[g].has_error_ => gts'[g].has_error_]_vars
  /\ [][\A t \in Threads :
          (HasTop(t) /\ Top(t).after_error /\ stack'[t] # stack[t]) =>
             /\ queues' = queues
             /\ hist'.enqueued = hist.enqueued
             /\ hist'.evaluated = hist.evaluated
             /\ hist'.applied = hist.applied
             /\ Top(t).pc = "dec" =>
                  gts'[Top(t).local_graph_task].outstanding_tasks_ =
                     gts[Top(t).local_graph_task].outstanding_tasks_ - 1]_vars

\* A worker is about to decrement for a node it popped after the error was
\* latched and did not evaluate.
C6_Witness ==
  \E t \in Threads :
    /\ HasTop(t)
    /\ Top(t).after_error
    /\ Top(t).pc = "dec"
    /\ Top(t).task.fn \in Nodes
    /\ Count(hist.evaluated, << Top(t).local_graph_task, Top(t).task.fn >>) = 0

\* The callbacks queued by nodes of GraphTask g.
QueuedFor(g) == {cb \in BagToSet(hist.cb_queued) : cb[2] = g}
RanBy(cb, g) == Count(hist.cb_ran, [callback |-> cb, by |-> g]) >= 1

\* C7 as stated: when execute has raised because a node failed, the
\* callbacks queued for that invocation have been run.
C7_CallbacksRunOnError ==
  \A g \in GTs :
    (hist.returned[g].status = "raised" /\ gts[g].has_error_) =>
       \A cb \in QueuedFor(g) : \E by \in GTs : RanBy(cb, by)

\* C7: a GraphTask with a latched error runs no callback (the future is
\* already completed when mark_graph_task_completed looks at it), and the
\* callback list is empty when execute exits.
C7_NoCallbacksOnError ==
  /\ [](\A g \in GTs : gts[g].has_error_ =>
          \A cb \in BagToSet(hist.cb_queued) : ~RanBy(cb, g))
  /\ [][\A g \in GTs : (~Ended(g) /\ Ended(g)') => final_callbacks_' = << >>]_vars

\* execute has raised for a GraphTask in which a node failed after another
\* node had queued a callback.
C7_Witness ==
  \E g \in GTs :
    /\ hist.returned[g].status = "raised"
    /\ gts[g].has_error_
    /\ QueuedFor(g) # {}
    /\ final_callbacks_ = << >>

\* C8: a caller thread that is outside execute has worker_device NO_DEVICE
\* and no local_ready_queue, and every execute called from outside the
\* engine got reentrant depth 0, owner CPU and a CPU queue of its own.
C8_ThreadLocalsRestored ==
  /\ \A t \in CallerThreads :
       stack[t] = << >> =>
          /\ tls[t].worker_device = NO_DEVICE
          /\ tls[t].local_ready_queue = NoQueue
  /\ \A g \in hist.toplevel :
       /\ gts[g].reentrant_depth_ = 0
       /\ gts[g].owner_ = CPU_DEVICE
       /\ \A other \in GTs \ {g} :
            other < g => gts[other].cpu_ready_queue_ # gts[g].cpu_ready_queue_

\* A thread whose first execute raised is inside its second execute.
C8_Witness ==
  \E t \in CallerThreads : \E g1, g2 \in hist.toplevel :
    /\ g1 < g2
    /\ hist.returned[g1].status = "raised"
    /\ HasTop(t)
    /\ stack[t][1].graph_task = g2

\* Thread t is inside apply of node n.
InApply(t, n) ==
  \E f \in FramesOf(t) :
    /\ f.kind = "thread_main"
    /\ f.pc \in {"apply", "apply_wait", "apply_ret"}
    /\ f.task.fn = n

\* C9: no two threads are inside apply of the same Node.
C9_ApplyNeverConcurrent ==
  \A n \in Nodes : \A t1, t2 \in Threads :
    (InApply(t1, n) /\ InApply(t2, n)) => t1 = t2

\* C10: outstanding_tasks_ is the number of pushes that raised it minus the
\* number of tasks whose processing ended, it is never negative, and the two
\* totals are equal at the moment a worker finds the GraphTask completed and
\* at the moment its future is completed with the value.
C10_OutstandingTasks ==
  /\ [](\A g \in GTs :
          /\ gts[g].outstanding_tasks_ = hist.pushed[g] - hist.processed[g]
          /\ gts[g].outstanding_tasks_ >= 0)
  /\ [][\A t \in Threads :
          (HasTop(t) /\ HasTop(t)' /\ ~Top(t).gt_completed /\ Top(t)'.gt_completed) =>
             hist.pushed[Top(t).local_graph_task] =
                hist.processed[Top(t).local_graph_task]]_vars
  /\ [][\A g \in GTs :
          /\ ~gts[g].future_result_.completed
          /\ gts'[g].future_result_.completed
          /\ ~gts'[g].future_result_.hasError
          => hist'.pushed[g] = hist'.processed[g]]_vars

\* The future of a GraphTask whose nodes ran on the CPU and on the device is
\* being completed with the value.
C10_Witness ==
  \E t \in Threads :
    /\ HasTop(t)
    /\ Top(t).pc = "callbacks"
    /\ hist.pushed[Top(t).local_graph_task] >= 5
    /\ hist.pushed[Top(t).local_graph_task] = hist.processed[Top(t).local_graph_task]

\* The GraphTasks for which outputs were requested.
Instrumented == {g \in GTs : gts[g].exec_info_ # << >>}

\* The nodes of an instrumented GraphTask that only capture: they have
\* captures and needed_ is false.
CaptureOnly(g) ==
  {n \in DOMAIN gts[g].exec_info_ :
     gts[g].exec_info_[n].captures_ # << >> /\ ~gts[g].exec_info_[n].needed_}

\* C11: when outputs are requested, only nodes whose exec_info_ entry has
\* needed_ are applied, only nodes with should_execute are enqueued or
\* evaluated, and when execute has returned a value every reachable node
\* that only captures was evaluated once, not applied, and each of its
\* captures is present in captured_vars_ and in the returned list.
C11_OnlyNeededApplied ==
  \A g \in Instrumented :
    LET info == gts[g].exec_info_ IN
    /\ \A n \in AllNodes :
         /\ Count(hist.applied, << g, n >>) >= 1 =>
              n \in DOMAIN info /\ info[n].needed_
         /\ (Count(hist.enqueued, << g, n >>) >= 1
               \/ Count(hist.evaluated, << g, n >>) >= 1) =>
              n \in DOMAIN info /\ should_execute(info[n])
    /\ hist.returned[g].status = "returned" =>
         \A n \in CaptureOnly(g) \cap ReachableNodes(g) :
            /\ Count(hist.evaluated, << g, n >>) = 1
            /\ Count(hist.applied, << g, n >>) = 0
            /\ \A i \in 1..Len(info[n].captures_) :
                 /\ gts[g].captured_vars_[info[n].captures_[i].output_idx_] # Undef
                 /\ hist.returned[g].value[info[n].captures_[i].output_idx_] # Undef

\* execute with the requested output (B, 0) has returned: B was evaluated and
\* not applied, C and D were never enqueued, the capture is at index 0.
C11_Witness ==
  \E g \in Instrumented :
    /\ hist.returned[g].status = "returned"
    /\ CaptureOnly(g) = {"B"}
    /\ Count(hist.evaluated, << g, "B" >>) = 1
    /\ Count(hist.applied, << g, "B" >>) = 0
    /\ Count(hist.enqueued, << g, "C" >>) = 0
    /\ Count(hist.enqueued, << g, "D" >>) = 0
    /\ hist.returned[g].value[0] # Undef

\* The nodes reachable from the roots, with GraphRoot.
ReachableFromRoots(roots) ==
  ReachableFrom(ValidTargets(roots), {}) \cup {GraphRootNode}

RECURSIVE SumOver(_, _, _)
RECURSIVE ExpectedSlot(_, _, _)
\* What node p sends along its i-th edge when every node has received all
\* its contributions: the reference value of the backward pass.
ExpectedOut(roots, p, i) ==
  IF p = GraphRootNode THEN 1
  ELSE NodeOutput(p, i, [k \in 0..(num_inputs(p) - 1) |-> ExpectedSlot(roots, p, k)])

\* The sum of the contributions cs (pairs of a node and one of its edges).
SumOver(roots, cs, acc) ==
  IF cs = {} THEN acc
  ELSE LET c == CHOOSE x \in cs : TRUE
       IN SumOver(roots, cs \ {c}, acc + ExpectedOut(roots, c[1], c[2]))

\* The sum of every contribution to slot k of node n (Undef when none).
ExpectedSlot(roots, n, k) ==
  LET cs == {c \in ReachableFromRoots(roots) \X (1..3) :
               /\ c[2] <= Len(EdgesOf(roots, c[1]))
               /\ EdgesOf(roots, c[1])[c[2]] = Edge(n, k)}
  IN IF cs = {} THEN Undef ELSE SumOver(roots, cs, 0)

\* The requested output with index k (0-based) of the run.
Requested(k) == run.outputs[k + 1]

\* C12: in a GraphTask with requested outputs every entry of captured_vars_
\* is written at most once, by the evaluation of the requested node, with
\* the sum of every contribution to the requested slot; when execute has
\* returned a value, every requested output on a reachable node was written
\* exactly once and execute returned the list of these sums, one entry per
\* requested output, in request order.
C12_CapturedOnce ==
  \A g \in Instrumented :
    LET roots == gts[g].roots
        want(k) == ExpectedSlot(roots, Requested(k).function, Requested(k).input_nr)
    IN
    /\ DOMAIN gts[g].captured_vars_ = 0..(Len(run.outputs) - 1)
    /\ \A k \in 0..(Len(run.outputs) - 1) :
         /\ Count(hist.captured, << g, k >>) <= 1
         /\ Count(hist.captured, << g, k >>) = 0 => gts[g].captured_vars_[k] = Undef
         /\ Count(hist.captured, << g, k >>) = 1 =>
              /\ Count(hist.evaluated, << g, Requested(k).function >>) = 1
              /\ gts[g].captured_vars_[k] = want(k)
    /\ hist.returned[g].status = "returned" =>
         /\ DOMAIN hist.returned[g].value = 0..(Len(run.outputs) - 1)
         /\ \A k \in 0..(Len(run.outputs) - 1) :
              Requested(k).function \in ReachableFromRoots(roots) =>
                 /\ Count(hist.captured, << g, k >>) = 1
                 /\ hist.returned[g].value[k] = want(k)

\* execute has returned the two requested inputs of D, each the contribution
\* of one predecessor, in request order ((D, 1) first).
C12_Witness ==
  \E g \in Instrumented :
    /\ hist.returned[g].status = "returned"
    /\ run.outputs = << Edge("D", 1), Edge("D", 0) >>
    /\ hist.returned[g].value = [k \in 0..1 |-> IF k = 0 THEN 4 ELSE 3]

\* C13: two execute calls of one run (the same graph, seeds and requested
\* outputs) that have returned a value have returned the same captured
\* outputs, whatever the interleaving of the workers in each of them.
C13_SameOutputsInEverySchedule ==
  \A g1, g2 \in Instrumented :
    (/\ hist.returned[g1].status = "returned"
     /\ hist.returned[g2].status = "returned") =>
       hist.returned[g1].value = hist.returned[g2].value

\* Two execute calls over the diamond, in which B and C run on different
\* threads, have both returned the requested inputs of D.
C13_Witness ==
  \E g1, g2 \in Instrumented :
    /\ g1 # g2
    /\ hist.returned[g1].status = "returned"
    /\ hist.returned[g2].status = "returned"
    /\ hist.returned[g1].value[0] # Undef
    /\ hist.returned[g2].value[1] # Undef

\* Thread t starts a reentrant execute in this step: a GraphTask is created
\* by a thread whose worker_device is not NO_DEVICE.
StartsReentrant(t) ==
  /\ Len(gts') = Len(gts) + 1
  /\ stack'[t] # stack[t]
  /\ tls[t].worker_device # NO_DEVICE

\* The choice of C14 alone: a reentrant execute runs
\* thread_main(graph_task, true) itself iff current_depth <
\* max_recursion_depth_; otherwise it runs no worker loop, puts the GraphTask
\* on the pool's queue and waits on the future; only pool workers drive a
\* GraphTask handed to the pool.
C14_DriveChoice ==
  /\ [][\A t \in Threads :
          StartsReentrant(t) =>
             LET g == Len(gts')
                 top == stack'[t][Len(stack'[t])]
                 under == stack'[t][Len(stack'[t]) - 1]
             IN IF tls[t].current_depth < run.max_recursion_depth_
                THEN /\ top.kind = "thread_main"
                     /\ top.reentrant_thread
                     /\ top.graph_task = g
                     /\ under.kind = "execute"
                     /\ under.graph_task = g
                ELSE /\ top.kind = "execute"
                     /\ top.graph_task = g
                     /\ top.pc = "addpool"]_vars
  /\ [][\A t \in Threads :
          (At(t, "execute", "addpool") /\ stack'[t] # stack[t]) =>
             /\ pool'.graphtasks_queue_ =
                   Append(pool.graphtasks_queue_, Top(t).graph_task)
             /\ stack'[t] = WithTop(t, [Top(t) EXCEPT !.pc = "wait"])[t]]_vars
  /\ [](\A t \in Threads : \A f \in FramesOf(t) :
          (f.kind = "thread_main" /\ f.graph_task \in hist.pooled) =>
             t \in PoolThreads /\ f.reentrant_thread)
  /\ [](\A t \in Threads \ PoolThreads : \A f \in FramesOf(t) :
          (f.kind = "thread_main" /\ f.reentrant_thread) =>
             gts[f.graph_task].reentrant_depth_ >= 1 /\ f.graph_task \notin hist.pooled)

\* C14: a reentrant execute drives its GraphTask inline iff current_depth <
\* max_recursion_depth_; otherwise it hands the GraphTask to the pool and
\* waits, and a pool worker drives that GraphTask to completion: the future
\* of every GraphTask handed to the pool is eventually completed.
C14_InlineOrPool ==
  /\ C14_DriveChoice
  /\ \A g \in 1..MaxGraphTasks :
       (g \in hist.pooled) ~> (g \in GTs /\ gts[g].future_result_.completed)

\* A pool worker drives a GraphTask that was handed to the pool at
\* current_depth = max_recursion_depth_ = 1, below an inline reentrant call.
C14_Witness ==
  \E p \in PoolThreads : \E g \in hist.pooled :
    /\ run.max_recursion_depth_ = 1
    /\ HasTop(p)
    /\ Top(p).kind = "thread_main"
    /\ Top(p).graph_task = g
    /\ gts[g].reentrant_depth_ = 2

\* The NodeTasks of GraphTask g that are queued or held by a worker that
\* has not yet decremented for them.
TasksLeft(g) == {task \in QueuedTasks \cup HeldTasks : task.base = g}

\* C15: a worker calls mark_graph_task_completed for a GraphTask only when
\* it has just observed outstanding_tasks_ = 0, or exit_on_error_ set with
\* has_error_ latched; and when future_result_ is completed with a value, no
\* NodeTask of that GraphTask is queued or in processing, every push was
\* matched by a finished task and every enqueued node was evaluated.
C15_CompleteOnlyWhenDrained ==
  /\ [][\A t \in Threads :
          (/\ HasTop(t) /\ HasTop(t)'
           /\ Top(t).pc # "mark" /\ Top(t)'.pc = "mark") =>
             LET gt == gts[Top(t).local_graph_task]
             IN \/ gt.outstanding_tasks_ = 0
                \/ gt.exit_on_error_ /\ gt.has_error_]_vars
  /\ [](\A t \in Threads : \A f \in FramesOf(t) :
          f.pc \in {"mark", "callbacks"} => f.gt_completed)
  /\ [][\A g \in GTs :
          (/\ ~gts[g].future_result_.completed
           /\ gts'[g].future_result_.completed
           /\ ~gts'[g].future_result_.hasError) =>
             /\ TasksLeft(g)' = {}
             /\ hist'.pushed[g] = hist'.processed[g]
             /\ \A n \in AllNodes :
                  Count(hist'.enqueued, << g, n >>) = Count(hist'.evaluated, << g, n >>)]_vars

\* The device worker has processed the last task of a GraphTask and is
\* about to call mark_graph_task_completed for it.
C15_Witness ==
  \E t \in DeviceThreads :
    /\ HasTop(t)
    /\ Top(t).pc = "mark"
    /\ gts[Top(t).local_graph_task].outstanding_tasks_ = 0
    /\ hist.pushed[Top(t).local_graph_task] >= 3

\* The GraphTasks created by execute calls made from a node of GraphTask g.
Nested(g) == {h \in GTs : hist.parent[h] = g}

\* C16 as stated: the future of a GraphTask is completed only after the
\* future of every GraphTask nested in it.
C16_OuterAfterInner ==
  \A g \in GTs : \A h \in Nested(g) :
    gts[g].future_result_.completed => gts[h].future_result_.completed

\* C16: the future of a GraphTask is completed with a value only after every
\* execute call made by one of its nodes has ended with its future
\* completed; the task of a node that is inside apply is still counted in
\* outstanding_tasks_ of its GraphTask.
C16_OuterValueAfterInner ==
  /\ \A g \in GTs : \A h \in Nested(g) :
       (gts[g].future_result_.completed /\ ~gts[g].future_result_.hasError) =>
          gts[h].future_result_.completed /\ Ended(h)
  /\ \A t \in Threads : \A f \in FramesOf(t) :
       (f.kind = "thread_main" /\ f.pc \in {"apply", "apply_wait", "apply_ret"}) =>
          gts[f.local_graph_task].outstanding_tasks_ >= 1

\* An outer GraphTask whose node C made a nested execute call, driven
\* inline, has its future completed with a value.
C16_Witness ==
  \E g \in GTs : \E h \in Nested(g) :
    /\ gts[g].future_result_.completed
    /\ ~gts[g].future_result_.hasError
    /\ h \notin hist.pooled
    /\ Count(hist.applied, << g, "C" >>) = 1

\* C17: when the inline drive thread_main(graph_task, reentrant = true)
\* returns to execute_with_graph_task (its loop ends at line 292), the
\* future of graph_task is completed: the assertion of line 818 holds.
C17_InlineAssertHolds ==
  [][\A t \in Threads :
       (/\ HasTop(t)
        /\ Top(t).kind = "thread_main"
        /\ Top(t).reentrant_thread
        /\ Top(t).pc = "loop"
        /\ Below(t) # << >>
        /\ Below(t)[Len(Below(t))].kind = "execute"
        /\ Below(t)[Len(Below(t))].pc = "in_inline"
        /\ Len(stack'[t]) < Len(stack[t])) =>
          gts[Top(t).graph_task].future_result_.completed]_vars

\* C18: once the execute call of a GraphTask has returned its result, no
\* NodeTask that refers to that GraphTask is in any ready queue.
C18_NoTaskLeftAfterReturn ==
  \A g \in GTs :
    hist.returned[g].status = "returned" =>
      {task \in QueuedTasks : task.base = g} = {}

\* C19: a pool worker that takes a GraphTask from the pool queue, the first
\* or a later one, finds its local ready queue unbound: the assertion of
\* init_local_ready_queue (line 912) never fails.
C19_PoolWorkerServesSeveral ==
  fault # "init_local_ready_queue"

\* C20: add_thread_pool_task spawns a pool worker exactly when num_workers_
\* is at most the number of GraphTasks already on the pool queue.
C20_SpawnRule ==
  [][\A t \in Threads :
       (/\ HasTop(t) /\ HasTop(t)'
        /\ Top(t).kind = "execute"
        /\ Top(t).pc = "addpool"
        /\ Top(t)'.pc = "wait") =>
          /\ pool'.graphtasks_queue_ =
               Append(pool.graphtasks_queue_, Top(t).graph_task)
          /\ pool'.spawned =
               IF pool.num_workers_ <= Len(pool.graphtasks_queue_)
               THEN pool.spawned + 1 ELSE pool.spawned]_vars

WakeUp(g) == NodeTask(g, None, InputBuffer(0))

\* The frames of thread_main that hold a popped task without fn_.
NoOpFrames ==
  {f \in UNION {FramesOf(t) : t \in Threads} :
     f.kind = "thread_main" /\ f.task # NoTask /\ f.task.fn = None}

Popped(t) ==
  IF HasTop(t) /\ Top(t).kind = "thread_main" /\ Top(t).pc = "pop"
     /\ stack'[t] # stack[t] /\ tls[t].local_ready_queue # NoQueue
  THEN {task \in BagToSet(queues[tls[t].local_ready_queue]) :
          queues' = [queues EXCEPT ![tls[t].local_ready_queue] =
                       @ (-) SetToBag({task})]}
  ELSE {}

\* C22: a worker in thread_main with reentrant = true never pops a task
\* whose GraphTask has expired; a worker of a device or a top-level driver
\* that pops one goes back to its loop and changes no GraphTask and
\* evaluates nothing.
C22_ExpiredOnlyNonReentrant ==
  [][\A t \in Threads : \A task \in Popped(t) :
       (~task.isShutdownTask /\ Expired(task.base)) =>
          /\ ~Top(t).reentrant_thread
          /\ gts' = gts
          /\ hist' = hist
          /\ Top(t)'.pc = "pop"]_vars

\* The number of valid edges, with multiplicity, that enter node n from the
\* nodes of the set from.
InEdges(roots, from, n) ==
  Cardinality(UNION {{<< m, i >> : i \in {j \in 1..Len(EdgesOf(roots, m)) :
                                            EdgesOf(roots, m)[j].function = n}} :
                     m \in from})

\* The final state of the worklist loop of compute_dependencies.
DepsFinal(roots) ==
  DepsLoop(roots, [deps |-> << >>, seen |-> {}, queue |-> << GraphRootNode >>,
                   expanded |-> EmptyBag])

\* C23: in a GraphTask as execute builds it, dependencies_ has an entry
\* exactly for the nodes reachable from the GraphRoot, the entry of n is the
\* number of valid edges (with multiplicity) entering n from the GraphRoot
\* and the reachable nodes, and the loop expands every reachable node, the
\* GraphRoot included, exactly once.
C23_DependenciesCountEdges ==
  \A g \in GTs :
    LET roots == gts[g].roots
        reach == ReachableFromRoots(roots)
        deps == gts[g].dependencies_
    IN /\ DOMAIN deps = reach \ {GraphRootNode}
       /\ \A n \in DOMAIN deps : deps[n] = InEdges(roots, reach, n)
       /\ DepsFinal(roots).expanded = SetToBag(reach)

\* A GraphTask with two root edges, a node entered by three valid edges
\* along different paths and from a root edge, and a node out of reach.
C23_Witness ==
  \E g \in GTs :
    /\ Len(gts[g].roots) = 2
    /\ "D" \in DOMAIN gts[g].dependencies_
    /\ gts[g].dependencies_["D"] = 3
    /\ "F" \notin DOMAIN gts[g].dependencies_

\* The nodes that carry a capture for one of the requested outputs.
CaptureNodes(outputs) == {outputs[i].function : i \in 1..Len(outputs)}

\* The recursive definition: n is needed iff some valid edge of n leads to a
\* node that carries a capture or is itself needed.
RECURSIVE IsNeeded(_, _)
IsNeeded(outputs, n) ==
  \E s \in ValidTargets(next_edges(n)) :
     s \in CaptureNodes(outputs) \/ IsNeeded(outputs, s)

\* C24: in a GraphTask execute builds with requested outputs, the GraphRoot
\* is needed and every node n reachable from it has an exec_info_ entry
\* whose needed_ is 'some successor of n should execute', which is the
\* recursive definition.
C24_NeededIsTransitive ==
  \A g \in GTs :
    LET info == gts[g].exec_info_
        reach == ReachableFromRoots(gts[g].roots) \ {GraphRootNode}
    IN (g \in hist.toplevel /\ run.outputs # << >>) =>
         /\ GraphRootNode \in DOMAIN info
         /\ info[GraphRootNode].needed_
         /\ \A n \in reach :
              /\ n \in DOMAIN info
              /\ info[n].needed_ = IsNeeded(run.outputs, n)
              /\ info[n].needed_ =
                   (\E s \in ValidTargets(next_edges(n)) :
                       s \in DOMAIN info /\
                       (info[s].needed_ \/ info[s].captures_ # << >>))

\* Two root edges, the output captured at D, which A reaches along two
\* paths: A, B and C are needed, D only carries the capture.
C24_Witness ==
  \E g \in GTs :
    LET info == gts[g].exec_info_ IN
    /\ Len(gts[g].roots) = 2
    /\ {"A", "B", "C", "D"} \subseteq DOMAIN info
    /\ info["A"].needed_ /\ info["B"].needed_ /\ info["C"].needed_
    /\ ~info["D"].needed_
    /\ info["D"].captures_ # << >>

\* The error of graph_task_exec_post_processing (lines 848-850).
NotReadyError == "could not compute gradients for some functions"

\* C25: whenever outstanding_tasks_ of a GraphTask is zero and no node has
\* raised, not_ready_ is empty, and no future is completed with the error
\* of the not_ready_ test.
C25_NotReadyEmptyWhenDone ==
  \A g \in GTs :
    /\ (gts[g].outstanding_tasks_ = 0 /\ ~gts[g].has_error_) =>
          gts[g].not_ready_ = << >>
    /\ gts[g].future_result_.error # NotReadyError

\* A GraphTask with requested outputs at D, which waits in not_ready_ for
\* its second input, has run to the end without an error.
C25_Witness ==
  \E g \in GTs :
    /\ gts[g].outstanding_tasks_ = 0
    /\ ~gts[g].has_error_
    /\ gts[g].future_result_.completed
    /\ gts[g].exec_info_ # << >>
    /\ Count(hist.evaluated, << g, "D" >>) = 1

\* How many times callback cb was invoked, by any GraphTask's completion.
TimesRan(cb) ==
  LET by(g) == Count(hist.cb_ran, [callback |-> cb, by |-> g])
      sum[k \in 0..Len(gts)] == IF k = 0 THEN 0 ELSE sum[k - 1] + by(k)
  IN sum[Len(gts)]

\* C26: when an execute call has returned its result, every callback
\* registered during that call was invoked exactly once, by the completion
\* of that call's GraphTask and by no other.
C26_CallbackRunsOnce ==
  \A g \in GTs :
    hist.returned[g].status = "returned" =>
      \A cb \in QueuedFor(g) :
         /\ Count(hist.cb_ran, [callback |-> cb, by |-> g]) = 1
         /\ TimesRan(cb) = 1

(***************************************************************************)
(* ReadyQueue::pop                                                         *)
(***************************************************************************)
\* The reentrant depth a queued task is ordered by.
DepthKey(task) ==
  IF task.isShutdownTask THEN 0
  ELSE IF Expired(task.base) THEN MaxInt ELSE gts[task.base].reentrant_depth_

\* a is strictly before b in the order of the queue.
StrictlyBefore(a, b) ==
  \/ a.isShutdownTask /\ ~b.isShutdownTask
  \/ a.isShutdownTask = b.isShutdownTask /\ ~a.isShutdownTask
     /\ DepthKey(a) > DepthKey(b)

\* C27: pop blocks while the queue is empty; otherwise it removes one task
\* from the queue and no task queued at that time is strictly before it in
\* the order (shutdown task first, then the larger reentrant depth, an
\* expired GraphTask counting as the largest depth); a worker that pops a
\* shutdown task leaves thread_main and changes no GraphTask.
C27_PopReturnsMaximal ==
  [][\A t \in Threads :
       (HasTop(t) /\ Top(t).kind = "thread_main" /\ Top(t).pc = "pop"
        /\ tls[t].local_ready_queue # NoQueue) =>
          /\ queues[tls[t].local_ready_queue] = EmptyBag => stack'[t] = stack[t]
          /\ stack'[t] # stack[t] => Popped(t) # {}
          /\ \A task \in Popped(t) :
                /\ \A other \in BagToSet(queues[tls[t].local_ready_queue]) :
                      ~StrictlyBefore(other, task)
                /\ task.isShutdownTask =>
                      /\ gts' = gts /\ hist' = hist
                      /\ Len(stack'[t]) < Len(stack[t])]_vars

\* A worker evaluates a task of a nested GraphTask while a task of a
\* shallower GraphTask waits in its queue.
C27_Witness ==
  \E t \in Threads :
     /\ HasTop(t) /\ Top(t).kind = "thread_main" /\ Top(t).pc = "eval"
     /\ tls[t].local_ready_queue # NoQueue
     /\ \E other \in BagToSet(queues[tls[t].local_ready_queue]) :
          /\ ~other.isShutdownTask /\ Alive(other.base) /\ Alive(Top(t).task.base)
          /\ gts[Top(t).task.base].reentrant_depth_ > gts[other.base].reentrant_depth_

(***************************************************************************)
(* reentrant_depth_                                                        *)
(***************************************************************************)
\* C28: the GraphTask of a top-level execute has reentrant_depth_ 0, and the
\* GraphTask of a reentrant execute has 1 + the reentrant_depth_ of the
\* GraphTask whose node made the call, on whichever thread that node runs.
C28_DepthIsParentPlusOne ==
  \A g \in GTs :
     gts[g].reentrant_depth_ =
        IF hist.parent[g] = NoGT THEN 0
        ELSE gts[hist.parent[g]].reentrant_depth_ + 1


(***************************************************************************)
(* current_depth and total_depth around a reentrant execute                *)
(***************************************************************************)
\* The innermost activation of execute on thread t, if any.
ExecuteFrames(t) == {k \in 1..Len(stack[t]) : stack[t][k].kind = "execute"}
InnermostExecute(t) ==
  stack[t][CHOOSE k \in ExecuteFrames(t) : \A j \in ExecuteFrames(t) : j <= k]
Depths(t) == << tls[t].current_depth, tls[t].total_depth >>

\* The reentrant execute of g was driven inline and has returned from
\* thread_main to wait on the future (line 820).
InlineReturned(f) ==
  f.pc = "wait" /\ f.graph_task \notin hist.toplevel /\ f.graph_task \notin hist.pooled

\* C29: while a thread drives a reentrant execute inline, its current_depth
\* and total_depth are one higher than at entry; when thread_main has
\* returned they are back at the values at entry; a reentrant execute that
\* is handed to the pool leaves both as they were.
C29_DepthsRestored ==
  \A t \in Threads :
     ExecuteFrames(t) # {} =>
        LET f == InnermostExecute(t) IN
        /\ f.pc = "in_inline" =>
              Depths(t) = << f.depths_at_entry[1] + 1, f.depths_at_entry[2] + 1 >>
        /\ InlineReturned(f) => Depths(t) = f.depths_at_entry
        /\ (f.pc = "addpool" \/ f.graph_task \in hist.pooled) =>
              Depths(t) = f.depths_at_entry


(***************************************************************************)
(* is_checkpoint_valid                                                     *)
(***************************************************************************)
\* The GraphTasks of the node executions (call_function) active on thread t.
ActiveNodeCalls(t) ==
  {stack[t][k].local_graph_task :
     k \in {j \in 1..Len(stack[t]) :
              /\ stack[t][j].kind = "thread_main"
              /\ stack[t][j].pc \in {"apply", "apply_wait", "apply_ret"}}}

is_checkpoint_valid(t) == tls[t].checkpoint_valid

\* C30: is_checkpoint_valid() on a thread is true iff no GraphTask of a node
\* execution active on that thread had outputs requested; outside of any
\* node execution it is true, also after a node raised.
C30_CheckpointValid ==
  \A t \in Threads :
     is_checkpoint_valid(t) = (\A g \in ActiveNodeCalls(t) : gts[g].exec_info_ = << >>)

(***************************************************************************)
(* Leaf streams                                                            *)
(***************************************************************************)
CompletedWithValue(g) ==
  gts[g].future_result_.completed /\ ~gts[g].future_result_.hasError

\* Every leaf stream of g other than its device's default stream had an
\* event recorded on it that the default stream waits for.
LeafStreamsSynced(g) ==
  \A s \in gts[g].leaf_streams :
     s # getDefaultStream(s[1]) =>
        [recorded_on |-> s, waiting |-> getDefaultStream(s[1])] \in hist.synced[g]

\* The nodes of g whose apply was called and that run on a stream.
AppliedOnStream(g) ==
  {n \in Nodes : Count(hist.applied, << g, n >>) > 0 /\ NodeStream(n) # NoStream}

================================================================================
